---- MODULE Spec2Model ----
(***************************************************************************)
(* Model of tools/explorer/lib/ontology_wrapper.py (class OntologyWrapper) *)
(* of the digitalbuildings ontology explorer: field-list retrieval, the    *)
(* match score between a concrete field set and a canonical entity type,   *)
(* and the ranking of all entity types of the universe.                    *)
(*                                                                         *)
(* universe and match_score_threshold are the wrapper's attributes; call   *)
(* and ret are the query in progress and its outcome; remembered is a      *)
(* history variable: an earlier query and its outcome, as a caller may     *)
(* have kept them.                                                         *)
(*                                                                         *)
(* Strings are sequences of code points (Python compares str by code       *)
(* point, lexicographically).  Python floats are modelled as exact         *)
(* fractions [num, den] with den > 0: the scores of the bounded inputs are *)
(* fractions with denominators of at most a few dozen, so two different    *)
(* scores are far apart compared to the float rounding error and compare   *)
(* as the fractions do; -1, -0.5 and 1 are computed exactly.               *)
(***************************************************************************)
EXTENDS Integers, Sequences, FiniteSets, TLC

VARIABLES universe, match_score_threshold, call, ret, remembered

vars == <<universe, match_score_threshold, call, ret, remembered>>

(* ------------------------------ bounds -------------------------------- *)

\* Most entity types in a universe of the ranking specification.
MaxTypes == 2
\* Longest field mapping (GetAllFields) of an entity type.
MaxFields == 3
\* Most parent names of an entity type.
MaxParents == 1

(* ------------------------------ strings ------------------------------- *)

EmptyStr == <<>>
\* "N"
StrN == <<78>>
\* "a", "b": field names
StrLowA == <<97>>
StrLowB == <<98>>
\* "A": an upper-case parent-type name
StrUpA == <<65>>
\* "1": an increment suffix
StrOne == <<49>>

\* Python str.upper() on ASCII: a-z (97..122) are moved down by 32.
Upper(s) == [i \in DOMAIN s |-> IF s[i] >= 97 /\ s[i] <= 122 THEN s[i] - 32 ELSE s[i]]

\* Python str.lower() on ASCII, used only to state case-insensitive equality.
Lower(s) == [i \in DOMAIN s |-> IF s[i] >= 65 /\ s[i] <= 90 THEN s[i] + 32 ELSE s[i]]

\* Python's s < t on str: lexicographic by code point, a proper prefix is less.
StrLess(s, t) ==
    \/ \E i \in 1..Len(s) :
          /\ i <= Len(t)
          /\ s[i] < t[i]
          /\ \A j \in 1..(i - 1) : s[j] = t[j]
    \/ /\ Len(s) < Len(t)
       /\ \A j \in 1..Len(s) : s[j] = t[j]

StrLessEq(s, t) == s = t \/ StrLess(s, t)

(* ------------------------- lib.model (fields) ------------------------- *)

\* StandardField(namespace_name, standard_field_name): the identity of a field.
StandardField(namespace_name, standard_field_name) ==
    [namespace |-> namespace_name, name |-> standard_field_name]

\* EntityTypeField(namespace, name, is_optional, increment)
EntityTypeField(namespace_name, standard_field_name, is_optional, increment) ==
    [namespace |-> namespace_name, name |-> standard_field_name,
     optional |-> is_optional, increment |-> increment]

GetNamespaceName(field) == field.namespace

GetStandardFieldName(field) == field.name

IsOptional(field) == field.optional

\* model.StandardizeField: the projection of a field definition on its
\* identity; optionality and increment are dropped.
StandardizeField(field) ==
    StandardField(GetNamespaceName(field), GetStandardFieldName(field))

(* --------------------------- fractions -------------------------------- *)

Frac(n, d) == [num |-> n, den |-> d]

\* x / n for a fraction or an integer quotient and n > 0
FracDiv(x, n) == Frac(x.num, x.den * n)

FracAdd(x, y) == Frac(x.num * y.den + y.num * x.den, x.den * y.den)

FracLess(x, y) == x.num * y.den < y.num * x.den

FracLessEq(x, y) == x.num * y.den <= y.num * x.den

\* The value of ret.score when no score was computed.
NoScore == Frac(0, 1)

(* ---------------------- entity types and universe --------------------- *)

\* EntityType.GetAllFields(): the mapping qualified name -> field of the
\* type, modelled by the sequence of its values in insertion order.
GetAllFields(entity_type) == entity_type.all_fields

\* One entry of GetAllFields().values(): a field (namespace, field,
\* increment) and its optionality.
QualifiedField(namespace, field, increment, optional) ==
    [field |-> [namespace |-> namespace, field |-> field, increment |-> increment],
     optional |-> optional]

\* The key of an entry in the GetAllFields() mapping.
QualifiedKey(q) == q.field

\* universe.GetEntityTypeNamespaces() and each namespace's
\* valid_types_map.values(), in iteration order.
AllEntityTypes(u) == u.types

\* entity_type_universe.GetEntityType(namespace, name): the positions of
\* the type of that name (none: the lookup returns None).
GetEntityType(u, namespace, entity_type_name) ==
    {i \in 1..Len(u.types) :
        /\ u.types[i].namespace = namespace
        /\ u.types[i].typename = entity_type_name}

(* ----------------------- results of a call ---------------------------- *)

\* What a call may raise; NoError: the call returned.
NoError == "none"
UndefinedInGlobal == "ValueError: not defined in global namespace"
UndefinedInNamespace == "ValueError: not defined in namespace"
NotExpanded == "Exception: inherited fields must be expanded"
EmptyFieldSet == "ValueError: concrete field set cannot be empty"

InvalidFieldArgument == "TypeError: field argument must be a StandardField object"

Returned(fields, matches, score) ==
    [raised |-> NoError, fields |-> fields, matches |-> matches, score |-> score,
     validity |-> FALSE]

Raised(error) ==
    [raised |-> error, fields |-> <<>>, matches |-> <<>>, score |-> NoScore,
     validity |-> FALSE]

\* The return of IsFieldValid.
ReturnedValidity(validity) ==
    [raised |-> NoError, fields |-> <<>>, matches |-> <<>>, score |-> NoScore,
     validity |-> validity]

\* An optional argument: None, or the value given.
None == <<>>
Some(v) == <<v>>

(* ------------------------ GetFieldsForTypeName ------------------------ *)

\* The loop that converts GetAllFields().values() to EntityTypeField objects.
EntityTypeFields(entity_type) ==
    [i \in 1..Len(GetAllFields(entity_type)) |->
        LET qualified_field == GetAllFields(entity_type)[i]
        IN  EntityTypeField(qualified_field.field.namespace,
                            qualified_field.field.field,
                            qualified_field.optional,
                            qualified_field.field.increment)]

\* The required_only filter without its "not": the optional fields are kept.
RequiredFieldsInverted(entity_type_fields) ==
    SelectSeq(entity_type_fields, LAMBDA field : IsOptional(field))

\* [field for field in entity_type_fields if not field.IsOptional()]
RequiredFields(entity_type_fields) ==
    SelectSeq(entity_type_fields, LAMBDA field : ~IsOptional(field))

\* The sort of the fields taken with key=lambda x: x.GetNamespaceName().
FieldKeyLessByNamespace(x, y) == StrLess(GetNamespaceName(x), GetNamespaceName(y))

\* key=lambda x: x.GetStandardFieldName(): x sorts strictly before y.
FieldKeyLess(x, y) == StrLess(GetStandardFieldName(x), GetStandardFieldName(y))

\* One step of a stable sort: x, the next element of the input, goes after
\* every element already placed whose key is not greater than its own.
InsertField(placed, x) ==
    LET k == Cardinality({i \in 1..Len(placed) : ~FieldKeyLess(x, placed[i])})
    IN  SubSeq(placed, 1, k) \o <<x>> \o SubSeq(placed, k + 1, Len(placed))

RECURSIVE SortedByFieldName(_)
\* sorted(entity_type_fields, key=..., reverse=False); Python's sort is stable.
SortedByFieldName(fields) ==
    IF fields = <<>> THEN <<>>
    ELSE InsertField(SortedByFieldName(SubSeq(fields, 1, Len(fields) - 1)),
                     fields[Len(fields)])

GetFieldsForTypeName(u, namespace, entity_type_name, required_only) ==
    LET found == GetEntityType(u, namespace, entity_type_name)
    IN  IF found = {}
        THEN IF namespace = EmptyStr
             THEN Raised(UndefinedInGlobal)
             ELSE Raised(UndefinedInNamespace)
        ELSE LET entity_type == u.types[CHOOSE i \in found : TRUE]
                 entity_type_fields == EntityTypeFields(entity_type)
                 kept == IF required_only
                         THEN RequiredFields(entity_type_fields)
                         ELSE entity_type_fields
             IN  IF ~entity_type.inherited_fields_expanded
                 THEN Raised(NotExpanded)
                 ELSE Returned(SortedByFieldName(kept), <<>>, NoScore)

(* ------------------------ _CalculateMatchScore ------------------------ *)

\* _CalculateMatchScore without the final division by 2.0.
CalculateMatchScoreNotHalved(concrete_fields, canonical_fields) ==
    LET required_canonical_fields ==
            {StandardizeField(field) :
                field \in {f \in canonical_fields : ~IsOptional(f)}}
        standard_canonical_fields ==
            {StandardizeField(field) : field \in canonical_fields}
        ma == Cardinality(concrete_fields \cap standard_canonical_fields)
        mr == Cardinality(concrete_fields \cap required_canonical_fields)
        tr == Cardinality(required_canonical_fields)
        c == Cardinality(concrete_fields)
        e == Cardinality(concrete_fields \ standard_canonical_fields)
        a == Cardinality(required_canonical_fields \ concrete_fields)
    IN  IF c <= 0
        THEN Raised(EmptyFieldSet)
        ELSE IF tr <= 0
             THEN Returned(<<>>, <<>>, Frac(ma - e, c))
             ELSE Returned(<<>>, <<>>, FracAdd(Frac(ma - e, c), Frac(mr - a, tr)))

\* _CalculateMatchScore taking e from the wrong side of the difference:
\* the canonical fields the concrete set lacks.
CalculateMatchScoreWrongExtras(concrete_fields, canonical_fields) ==
    LET required_canonical_fields ==
            {StandardizeField(field) :
                field \in {f \in canonical_fields : ~IsOptional(f)}}
        standard_canonical_fields ==
            {StandardizeField(field) : field \in canonical_fields}
        ma == Cardinality(concrete_fields \cap standard_canonical_fields)
        mr == Cardinality(concrete_fields \cap required_canonical_fields)
        tr == Cardinality(required_canonical_fields)
        c == Cardinality(concrete_fields)
        e == Cardinality(standard_canonical_fields \ concrete_fields)
        a == Cardinality(required_canonical_fields \ concrete_fields)
    IN  IF c <= 0
        THEN Raised(EmptyFieldSet)
        ELSE IF tr <= 0
             THEN Returned(<<>>, <<>>, FracDiv(Frac(ma - e, c), 2))
             ELSE Returned(<<>>, <<>>,
                           FracDiv(FracAdd(Frac(ma - e, c), Frac(mr - a, tr)), 2))

\* _CalculateMatchScore counting the required canonical fields before they
\* are standardized.
CalculateMatchScoreRawRequired(concrete_fields, canonical_fields) ==
    LET required_canonical_fields ==
            {StandardizeField(field) :
                field \in {f \in canonical_fields : ~IsOptional(f)}}
        standard_canonical_fields ==
            {StandardizeField(field) : field \in canonical_fields}
        ma == Cardinality(concrete_fields \cap standard_canonical_fields)
        mr == Cardinality(concrete_fields \cap required_canonical_fields)
        tr == Cardinality({f \in canonical_fields : ~IsOptional(f)})
        c == Cardinality(concrete_fields)
        e == Cardinality(concrete_fields \ standard_canonical_fields)
        a == Cardinality(required_canonical_fields \ concrete_fields)
    IN  IF c <= 0
        THEN Raised(EmptyFieldSet)
        ELSE IF tr <= 0
             THEN Returned(<<>>, <<>>, FracDiv(Frac(ma - e, c), 2))
             ELSE Returned(<<>>, <<>>,
                           FracDiv(FracAdd(Frac(ma - e, c), Frac(mr - a, tr)), 2))

\* _CalculateMatchScore rejecting only a negative number of concrete fields.
CalculateMatchScoreLaxGuard(concrete_fields, canonical_fields) ==
    LET required_canonical_fields ==
            {StandardizeField(field) :
                field \in {f \in canonical_fields : ~IsOptional(f)}}
        standard_canonical_fields ==
            {StandardizeField(field) : field \in canonical_fields}
        ma == Cardinality(concrete_fields \cap standard_canonical_fields)
        mr == Cardinality(concrete_fields \cap required_canonical_fields)
        tr == Cardinality(required_canonical_fields)
        c == Cardinality(concrete_fields)
        e == Cardinality(concrete_fields \ standard_canonical_fields)
        a == Cardinality(required_canonical_fields \ concrete_fields)
    IN  IF c < 0
        THEN Raised(EmptyFieldSet)
        ELSE IF tr <= 0
             THEN Returned(<<>>, <<>>, FracDiv(Frac(ma - e, c), 2))
             ELSE Returned(<<>>, <<>>,
                           FracDiv(FracAdd(Frac(ma - e, c), Frac(mr - a, tr)), 2))

CalculateMatchScore(concrete_fields, canonical_fields) ==
    LET required_canonical_fields ==
            {StandardizeField(field) :
                field \in {f \in canonical_fields : ~IsOptional(f)}}
        standard_canonical_fields ==
            {StandardizeField(field) : field \in canonical_fields}
        ma == Cardinality(concrete_fields \cap standard_canonical_fields)
        mr == Cardinality(concrete_fields \cap required_canonical_fields)
        tr == Cardinality(required_canonical_fields)
        c == Cardinality(concrete_fields)
        e == Cardinality(concrete_fields \ standard_canonical_fields)
        a == Cardinality(required_canonical_fields \ concrete_fields)
    IN  IF c <= 0
        THEN Raised(EmptyFieldSet)
        ELSE IF tr <= 0
             THEN Returned(<<>>, <<>>, FracDiv(Frac(ma - e, c), 2))
             ELSE Returned(<<>>, <<>>,
                           FracDiv(FracAdd(Frac(ma - e, c), Frac(mr - a, tr)), 2))

(* ---------------------------- _CreateMatch ---------------------------- *)

\* The set of EntityTypeField objects built from entity_type.GetAllFields().
CanonicalFieldSet(entity_type) ==
    {EntityTypeFields(entity_type)[i] : i \in 1..Len(GetAllFields(entity_type))}

Match(field_list, entity_type, match_score) ==
    [field_list |-> field_list, entity_type |-> entity_type,
     match_score |-> match_score]

GetMatchScore(match) == match.match_score

CreateMatch(field_list, entity_type) ==
    LET scored == CalculateMatchScore(field_list, CanonicalFieldSet(entity_type))
    IN  IF scored.raised # NoError
        THEN scored
        ELSE Returned(<<>>,
                      <<Match(field_list, entity_type, scored.score)>>,
                      scored.score)

(* ---------------------- GetEntityTypesFromFields ---------------------- *)

\* The test of the enumeration loop: is entity_type appended to
\* entity_type_list?
IsListed(entity_type, general_type) ==
    /\ ~(entity_type.is_abstract \/ GetAllFields(entity_type) = <<>>)
    /\ \/ general_type = None
       \/ /\ general_type # None
          /\ Upper(general_type[1]) \in entity_type.unqualified_parent_names

EntityTypeList(u, general_type) ==
    SelectSeq(AllEntityTypes(u), LAMBDA entity_type : IsListed(entity_type, general_type))

\* The sort of the matches taken with reverse=True: highest score first.
MatchKeyGreater(x, y) == FracLess(GetMatchScore(y), GetMatchScore(x))

\* key=lambda x: x.GetMatchScore(): x sorts strictly before y.
MatchKeyLess(x, y) == FracLess(GetMatchScore(x), GetMatchScore(y))

InsertMatch(placed, x) ==
    LET k == Cardinality({i \in 1..Len(placed) : ~MatchKeyLess(x, placed[i])})
    IN  SubSeq(placed, 1, k) \o <<x>> \o SubSeq(placed, k + 1, Len(placed))

RECURSIVE SortedByMatchScore(_)
\* sorted(match_list, key=..., reverse=False); Python's sort is stable.
SortedByMatchScore(match_list) ==
    IF match_list = <<>> THEN <<>>
    ELSE InsertMatch(SortedByMatchScore(SubSeq(match_list, 1, Len(match_list) - 1)),
                     match_list[Len(match_list)])

\* The best-fit filter taken with >= in place of >.
BestFitInclusive(match_list_sorted, threshold) ==
    SelectSeq(match_list_sorted,
              LAMBDA match : FracLessEq(threshold, GetMatchScore(match)))

\* [match for match in match_list_sorted if match.GetMatchScore() > threshold]
BestFit(match_list_sorted, threshold) ==
    SelectSeq(match_list_sorted,
              LAMBDA match : FracLess(threshold, GetMatchScore(match)))

GetEntityTypesFromFields(u, threshold, field_list, general_type, best_fit) ==
    LET entity_type_list == EntityTypeList(u, general_type)
        created == [i \in 1..Len(entity_type_list) |->
                       CreateMatch(field_list, entity_type_list[i])]
    IN  IF \E i \in 1..Len(created) : created[i].raised # NoError
        THEN Raised(created[CHOOSE i \in 1..Len(created) :
                                /\ created[i].raised # NoError
                                /\ \A j \in 1..(i - 1) : created[j].raised = NoError].raised)
        ELSE LET match_list == [i \in 1..Len(created) |-> created[i].matches[1]]
                 match_list_sorted == SortedByMatchScore(match_list)
             IN  IF best_fit
                 THEN Returned(<<>>, BestFit(match_list_sorted, threshold), NoScore)
                 ELSE Returned(<<>>, match_list_sorted, NoScore)

(* ---------------------------- IsFieldValid ---------------------------- *)

\* An argument of IsFieldValid: a StandardField object, or an object of
\* another type (for which isinstance(field, StandardField) is false).
FieldArgument(field) == [is_standard_field |-> TRUE, field |-> field]
OtherArgument ==
    [is_standard_field |-> FALSE, field |-> StandardField(EmptyStr, EmptyStr)]

\* universe.field_universe.IsFieldDefined(namespace_name, fieldname): is
\* the field registered under that namespace?
IsFieldDefined(u, namespace_name, fieldname) ==
    StandardField(namespace_name, fieldname) \in u.field_universe

IsFieldValid(u, field) ==
    IF ~field.is_standard_field
    THEN Raised(InvalidFieldArgument)
    ELSE LET namespace_name == GetNamespaceName(field.field)
             standard_field_name == GetStandardFieldName(field.field)
         IN  ReturnedValidity(IsFieldDefined(u, namespace_name, standard_field_name))

(* ------------------------- bounded universes -------------------------- *)

\* The sequences of at most MaxFields entries over the field definitions
\* defs whose keys are distinct: the values of a GetAllFields() mapping.
FieldMappings(defs) ==
    {m \in UNION {[1..n -> defs] : n \in 0..MaxFields} :
        \A i, j \in DOMAIN m : i # j => QualifiedKey(m[i]) # QualifiedKey(m[j])}

\* Field definitions of the global namespace, without increment.
GlobalFieldDefs ==
    {QualifiedField(EmptyStr, name, EmptyStr, optional) :
        name \in {StrLowA, StrLowB}, optional \in BOOLEAN}

\* Field definitions of two namespaces, with and without increment.
NamespacedFieldDefs ==
    {QualifiedField(namespace, name, increment, optional) :
        namespace \in {EmptyStr, StrN}, name \in {StrLowA, StrLowB},
        increment \in {EmptyStr, StrOne}, optional \in BOOLEAN}

\* Parent names of either letter case.
ParentNames == {StrUpA, StrLowA}

ParentNameSets == {S \in SUBSET ParentNames : Cardinality(S) <= MaxParents}

\* The i-th type of a universe is <namespace>/T<i>; the first one is global.
TypeNamespace(i) == IF i = 1 THEN EmptyStr ELSE StrN
TypeName(i) == <<84, 48 + i>>

EntityTypes(i, mappings) ==
    [namespace : {TypeNamespace(i)},
     typename : {TypeName(i)},
     is_abstract : BOOLEAN,
     inherited_fields_expanded : BOOLEAN,
     unqualified_parent_names : ParentNameSets,
     all_fields : mappings]

\* Universes of up to MaxTypes types over the global field definitions.
ManyTypeUniverses ==
    [field_universe : {{StandardField(EmptyStr, StrLowA), StandardField(EmptyStr, StrLowB)}},
     types : UNION {
        {t \in [1..n -> UNION {EntityTypes(i, FieldMappings(GlobalFieldDefs)) : i \in 1..n}] :
            \A i \in 1..n : t[i].typename = TypeName(i)} : n \in 0..MaxTypes}]

\* Universes of one concrete, parentless type over the namespaced field
\* definitions.
OneTypeUniverses ==
    [field_universe : {{StandardField(namespace, name) :
                          namespace \in {EmptyStr, StrN}, name \in {StrLowA, StrLowB}}},
     types : {<<t>> : t \in {e \in EntityTypes(1, FieldMappings(NamespacedFieldDefs)) :
                                /\ ~e.is_abstract
                                /\ e.unqualified_parent_names = {}}}]

(* ------------------------------ the calls ----------------------------- *)

NoCall ==
    [op |-> "none", namespace |-> EmptyStr, entity_type_name |-> EmptyStr,
     required_only |-> FALSE, field_list |-> {}, general_type |-> None,
     best_fit |-> FALSE, entity_type |-> 0, field |-> OtherArgument]

\* OntologyWrapper.__init__
Construct(u) ==
    /\ universe = u
    /\ match_score_threshold = Frac(-1, 2)
    /\ call = NoCall
    /\ ret = Returned(<<>>, <<>>, NoScore)
    /\ remembered = [call |-> NoCall, ret |-> Returned(<<>>, <<>>, NoScore)]

Init == \E u \in ManyTypeUniverses : Construct(u)

InitOneType == \E u \in OneTypeUniverses : Construct(u)

\* The arguments a caller may pass; one query is in progress at a time (the
\* wrapper is synchronous), call = NoCall between queries.
QueryNamespaces == {EmptyStr, StrN}
QueryTypeNames == {TypeName(i) : i \in 1..MaxTypes}
GeneralTypes == {None} \cup {Some(tag) : tag \in ParentNames}
FieldArguments ==
    {FieldArgument(StandardField(namespace, name)) :
        namespace \in QueryNamespaces, name \in {StrLowA, StrLowB}}
    \cup {OtherArgument}

\* GetFieldsForTypeName applying its required_only filter to the type's own
\* field mapping instead of to a copy.
CallGetFieldsForTypeNameFilteringInPlace ==
    \E namespace \in QueryNamespaces, entity_type_name \in QueryTypeNames,
       required_only \in BOOLEAN :
        /\ call = NoCall
        /\ call' = [NoCall EXCEPT !.op = "GetFieldsForTypeName",
                                  !.namespace = namespace,
                                  !.entity_type_name = entity_type_name,
                                  !.required_only = required_only]
        /\ ret' = GetFieldsForTypeName(universe, namespace, entity_type_name,
                                       required_only)
        /\ universe' =
              [universe EXCEPT !.types =
                  [i \in DOMAIN universe.types |->
                      IF /\ required_only
                         /\ i \in GetEntityType(universe, namespace, entity_type_name)
                      THEN [universe.types[i] EXCEPT !.all_fields =
                              SelectSeq(@, LAMBDA q : ~q.optional)]
                      ELSE universe.types[i]]]
        /\ UNCHANGED <<match_score_threshold, remembered>>

CallGetFieldsForTypeName ==
    \E namespace \in QueryNamespaces, entity_type_name \in QueryTypeNames,
       required_only \in BOOLEAN :
        /\ call = NoCall
        /\ call' = [NoCall EXCEPT !.op = "GetFieldsForTypeName",
                                  !.namespace = namespace,
                                  !.entity_type_name = entity_type_name,
                                  !.required_only = required_only]
        /\ ret' = GetFieldsForTypeName(universe, namespace, entity_type_name,
                                       required_only)
        /\ UNCHANGED <<universe, match_score_threshold, remembered>>

CallCreateMatch ==
    \E field_list \in SUBSET universe.field_universe,
       i \in 1..Len(AllEntityTypes(universe)) :
        /\ call = NoCall
        /\ call' = [NoCall EXCEPT !.op = "_CreateMatch",
                                  !.field_list = field_list,
                                  !.entity_type = i]
        /\ ret' = CreateMatch(field_list, AllEntityTypes(universe)[i])
        /\ UNCHANGED <<universe, match_score_threshold, remembered>>

CallGetEntityTypesFromFields ==
    \E field_list \in SUBSET universe.field_universe,
       general_type \in GeneralTypes, best_fit \in BOOLEAN :
        /\ call = NoCall
        /\ call' = [NoCall EXCEPT !.op = "GetEntityTypesFromFields",
                                  !.field_list = field_list,
                                  !.general_type = general_type,
                                  !.best_fit = best_fit]
        /\ ret' = GetEntityTypesFromFields(universe, match_score_threshold,
                                           field_list, general_type, best_fit)
        /\ UNCHANGED <<universe, match_score_threshold, remembered>>

CallIsFieldValid ==
    \E field \in FieldArguments :
        /\ call = NoCall
        /\ call' = [NoCall EXCEPT !.op = "IsFieldValid", !.field = field]
        /\ ret' = IsFieldValid(universe, field)
        /\ UNCHANGED <<universe, match_score_threshold, remembered>>

\* The caller is done with the result of its query (a field list, a Match
\* list or an error): results are transient, the wrapper keeps none.
Discard ==
    /\ call # NoCall
    /\ call' = NoCall
    /\ ret' = Returned(<<>>, <<>>, NoScore)
    /\ UNCHANGED <<universe, match_score_threshold, remembered>>

\* The caller keeps the query it made and its outcome, to compare a later
\* query with; the wrapper itself keeps nothing.
Remember ==
    /\ call # NoCall
    /\ remembered' = [call |-> call, ret |-> ret]
    /\ call' = NoCall
    /\ ret' = Returned(<<>>, <<>>, NoScore)
    /\ UNCHANGED <<universe, match_score_threshold>>

Next ==
    \/ CallGetFieldsForTypeName
    \/ CallCreateMatch
    \/ CallGetEntityTypesFromFields
    \/ CallIsFieldValid
    \/ Discard

\* Sessions of any number of queries to the public methods, over the
\* universes of at most one type, the caller remembering any one of them.
SessionUniverses ==
    [field_universe : {{StandardField(EmptyStr, StrLowA), StandardField(EmptyStr, StrLowB)}},
     types : {<<>>} \cup {<<t>> : t \in EntityTypes(1, FieldMappings(GlobalFieldDefs))}]

InitSession == \E u \in SessionUniverses : Construct(u)

NextSession ==
    \/ CallGetFieldsForTypeName
    \/ CallGetEntityTypesFromFields
    \/ CallIsFieldValid
    \/ Discard
    \/ Remember

NextOneType ==
    \/ CallGetFieldsForTypeName
    \/ CallCreateMatch
    \/ Discard

Spec == Init /\ [][Next]_vars

SpecOneType == InitOneType /\ [][NextOneType]_vars

SpecSession == InitSession /\ [][NextSession]_vars

(* ====================== properties of the score ====================== *)

\* The universe OntologyWrapper.__init__ asks for: inherited fields expanded.
UniverseExpanded ==
    \A i \in 1..Len(AllEntityTypes(universe)) :
        AllEntityTypes(universe)[i].inherited_fields_expanded

\* The entity type a _CreateMatch call in progress scores against.
ScoredType == AllEntityTypes(universe)[call.entity_type]

\* The canonical fields of type t, and the required ones among them, as
\* field identities (namespace, name).
StdC(t) ==
    {StandardField(GetAllFields(t)[i].field.namespace, GetAllFields(t)[i].field.field) :
        i \in DOMAIN GetAllFields(t)}
StdR(t) ==
    {StandardField(GetAllFields(t)[i].field.namespace, GetAllFields(t)[i].field.field) :
        i \in {j \in DOMAIN GetAllFields(t) : ~GetAllFields(t)[j].optional}}

ScoringNonEmpty == call.op = "_CreateMatch" /\ call.field_list # {}

\* C1: for every non-empty concrete field set and every canonical field
\* set, the call returns a score s with -1 <= s <= 1.
C1_ScoreRange ==
    ScoringNonEmpty =>
        /\ ret.raised = NoError
        /\ ret.score.den > 0
        /\ -ret.score.den <= ret.score.num
        /\ ret.score.num <= ret.score.den

\* Both ends of the interval are taken: a type of required fields only,
\* none of which the concrete set has, scores -1.
C1_Witness ==
    /\ UniverseExpanded
    /\ ScoringNonEmpty
    /\ StdR(ScoredType) # {}
    /\ ret.raised = NoError
    /\ ret.score.num = -ret.score.den

\* C2: with ma = |F \cap StdC|, mr = |F \cap StdR|, tr = |StdR|, c = |F|,
\* e = |F \ StdC|, a = |StdR \ F|, the score is ((ma - e)/c)/2 when tr = 0
\* and (((ma - e)/c) + ((mr - a)/tr))/2 when tr > 0.
C2_ScoreFormula ==
    ScoringNonEmpty =>
        LET F == call.field_list
            ma == Cardinality(F \cap StdC(ScoredType))
            mr == Cardinality(F \cap StdR(ScoredType))
            tr == Cardinality(StdR(ScoredType))
            c == Cardinality(F)
            e == Cardinality(F \ StdC(ScoredType))
            a == Cardinality(StdR(ScoredType) \ F)
        IN  /\ ret.raised = NoError
            /\ ret.score.den > 0
            /\ tr = 0 => ret.score.num * (2 * c) = (ma - e) * ret.score.den
            /\ tr > 0 => ret.score.num * (2 * c * tr)
                            = ((ma - e) * tr + (mr - a) * c) * ret.score.den

\* A type of optional fields only, one of them matched and one concrete
\* field extraneous: the first term alone decides the score.
C2_Witness ==
    /\ UniverseExpanded
    /\ ScoringNonEmpty
    /\ StdC(ScoredType) # {}
    /\ StdR(ScoredType) = {}
    /\ call.field_list \cap StdC(ScoredType) # {}
    /\ call.field_list \ StdC(ScoredType) # {}
    /\ ret.raised = NoError

\* C3: when the concrete field set is exactly the standardized canonical
\* field set and every canonical field is required, the score is 1.
C3_PerfectMatch ==
    ( /\ ScoringNonEmpty
      /\ call.field_list = StdC(ScoredType)
      /\ \A i \in DOMAIN GetAllFields(ScoredType) : ~GetAllFields(ScoredType)[i].optional )
    => /\ ret.raised = NoError
       /\ ret.score.den > 0
       /\ ret.score.num = ret.score.den

\* A perfect match on a type two of whose fields differ only by increment.
C3_Witness ==
    /\ UniverseExpanded
    /\ ScoringNonEmpty
    /\ call.field_list = StdC(ScoredType)
    /\ \A i \in DOMAIN GetAllFields(ScoredType) : ~GetAllFields(ScoredType)[i].optional
    /\ Cardinality(call.field_list) >= 2
    /\ Len(GetAllFields(ScoredType)) > Cardinality(call.field_list)
    /\ ret.score.num = ret.score.den

(* ===================== properties of the ranking ===================== *)

Ranking == call.op = "GetEntityTypesFromFields"

\* What the ranking in progress returns when asked for every match.
AllMatches ==
    GetEntityTypesFromFields(universe, match_score_threshold, call.field_list,
                             call.general_type, FALSE)

\* C4 as claimed: a call with an empty concrete field set always raises
\* the empty-field-set error, in every universe.
C4_AlwaysRaises ==
    ( /\ call.op \in {"_CreateMatch", "GetEntityTypesFromFields"}
      /\ call.field_list = {} )
    => ret.raised = EmptyFieldSet

\* C4 as amended: with an empty concrete field set, scoring one type always
\* raises the empty-field-set error; the ranking raises it exactly when at
\* least one entity type is a candidate, and returns the empty list when
\* none is; no call returns a score or a Match.
C4_RaisesWhenScoring ==
    call.field_list = {} =>
        /\ call.op = "_CreateMatch" => ret.raised = EmptyFieldSet
        /\ Ranking =>
              /\ ret.raised \in {NoError, EmptyFieldSet}
              /\ (ret.raised = EmptyFieldSet) <=>
                    (\E i \in 1..Len(AllEntityTypes(universe)) :
                        IsListed(AllEntityTypes(universe)[i], call.general_type))
              /\ ret.matches = <<>>

\* The ranking of an empty field set raises in a universe of two types,
\* only one of which carries the general-type tag asked for.
C4_Witness ==
    /\ UniverseExpanded
    /\ Ranking
    /\ call.field_list = {}
    /\ call.general_type # None
    /\ Len(AllEntityTypes(universe)) = 2
    /\ Len(EntityTypeList(universe, call.general_type)) = 1
    /\ ret.raised = EmptyFieldSet

\* C5 as claimed: the best-fit result is a strict subset of the full result
\* (stated here for the rankings of an expanded universe that have at
\* least one match).
C5_StrictSubset ==
    ( /\ UniverseExpanded
      /\ Ranking /\ call.best_fit /\ ret.raised = NoError
      /\ AllMatches.matches # <<>> ) =>
        Len(ret.matches) < Len(AllMatches.matches)

\* C5 as amended: the best-fit result is a sub-sequence of the full result
\* (all of it when every score exceeds the threshold): exactly the matches
\* whose score is strictly greater than -0.5, in the same relative order.
C5_BestFitFilter ==
    (Ranking /\ call.best_fit) =>
        LET full == AllMatches.matches
            dropped == Len(full) - Len(ret.matches)
        IN  /\ ret.raised = AllMatches.raised
            /\ match_score_threshold.num * 2 = -match_score_threshold.den
            /\ dropped >= 0
            /\ \A i \in 1..Len(ret.matches) :
                  /\ ret.matches[i] = full[dropped + i]
                  /\ 2 * ret.matches[i].match_score.num > -ret.matches[i].match_score.den
            /\ \A i \in 1..dropped :
                  2 * full[i].match_score.num <= -full[i].match_score.den

\* A best-fit ranking that drops a match scoring exactly -0.5 and keeps
\* another one.
C5_Witness ==
    /\ UniverseExpanded
    /\ Ranking
    /\ call.best_fit
    /\ Len(AllMatches.matches) = 2
    /\ Len(ret.matches) = 1
    /\ 2 * AllMatches.matches[1].match_score.num = -AllMatches.matches[1].match_score.den

\* C6: the result is ordered by match score ascending, with or without
\* best_fit: score(result[i]) <= score(result[j]) for i < j.
C6_AscendingScores ==
    Ranking =>
        \A i, j \in 1..Len(ret.matches) :
            i < j => ret.matches[i].match_score.num * ret.matches[j].match_score.den
                        <= ret.matches[j].match_score.num * ret.matches[i].match_score.den

\* A ranking whose best match is the universe's first type: the sort moved
\* it to the end.
C6_Witness ==
    /\ UniverseExpanded
    /\ Ranking
    /\ Len(ret.matches) = 2
    /\ ret.matches[2].entity_type = AllEntityTypes(universe)[1]
    /\ FracLess(ret.matches[1].match_score, ret.matches[2].match_score)

(* ==================== properties of the field list =================== *)

Listing == call.op = "GetFieldsForTypeName"

\* The positions of the type the listing in progress names.
ListedType == GetEntityType(universe, call.namespace, call.entity_type_name)

\* What the listing in progress returns when asked for every field.
AllFields ==
    GetFieldsForTypeName(universe, call.namespace, call.entity_type_name, FALSE)

NamespaceAndNameLessEq(x, y) ==
    \/ StrLess(x.namespace, y.namespace)
    \/ x.namespace = y.namespace /\ StrLessEq(x.name, y.name)

\* C8 as claimed: the returned fields are ascending by (namespace, name).
C8_SortedByNamespaceAndName ==
    (Listing /\ UniverseExpanded) =>
        \A i \in 1..(Len(ret.fields) - 1) :
            NamespaceAndNameLessEq(ret.fields[i], ret.fields[i + 1])

\* C8 as amended: the returned fields are ascending by field name alone;
\* the namespace is no part of the sort key.
C8_SortedByName ==
    Listing =>
        \A i \in 1..(Len(ret.fields) - 1) :
            StrLessEq(ret.fields[i].name, ret.fields[i + 1].name)

\* A listing of fields of two namespaces that the sort had to reorder.
C8_Witness ==
    /\ UniverseExpanded
    /\ Listing
    /\ Len(ret.fields) >= 2
    /\ \E i, j \in 1..Len(ret.fields) : ret.fields[i].namespace # ret.fields[j].namespace
    /\ \E i \in ListedType :
          /\ ret.fields # EntityTypeFields(AllEntityTypes(universe)[i])
          /\ Len(ret.fields) = Len(GetAllFields(AllEntityTypes(universe)[i]))

\* C9: for a resolvable, expanded type the required_only output is the
\* sub-sequence of the full output made of the fields that are not
\* optional, in the same order.
C9_RequiredSubsequence ==
    (Listing /\ call.required_only /\ ListedType # {} /\ UniverseExpanded) =>
        /\ ret.raised = NoError
        /\ AllFields.raised = NoError
        /\ ret.fields = SelectSeq(AllFields.fields, LAMBDA field : ~field.optional)

\* A required_only listing that drops an optional field, keeps at least
\* two required ones, of a type whose mapping is not in sorted order.
C9_Witness ==
    /\ UniverseExpanded
    /\ Listing
    /\ call.required_only
    /\ Len(ret.fields) >= 2
    /\ Len(AllFields.fields) > Len(ret.fields)
    /\ \E i \in ListedType :
          AllFields.fields # EntityTypeFields(AllEntityTypes(universe)[i])

(* =================== properties of the candidate set ================== *)

\* The candidates as claimed: the types that are not abstract, have a field
\* and, when a tag is given, have a parent name equal to it up to letter
\* case.
CaseInsensitiveCandidates ==
    {i \in 1..Len(AllEntityTypes(universe)) :
        LET t == AllEntityTypes(universe)[i]
        IN  /\ ~t.is_abstract
            /\ GetAllFields(t) # <<>>
            /\ \/ call.general_type = None
               \/ /\ call.general_type # None
                  /\ \E parent \in t.unqualified_parent_names :
                        Lower(parent) = Lower(call.general_type[1])}

\* C10 as claimed: without best_fit the result holds exactly one Match per
\* candidate, the tag being compared with the parent names case-insensitively.
C10_OneMatchPerCandidate ==
    ( /\ Ranking /\ ~call.best_fit /\ call.field_list # {}
      /\ ret.raised = NoError /\ UniverseExpanded ) =>
        /\ Len(ret.matches) = Cardinality(CaseInsensitiveCandidates)
        /\ {ret.matches[i].entity_type : i \in 1..Len(ret.matches)}
              = {AllEntityTypes(universe)[i] : i \in CaseInsensitiveCandidates}

(* ================== properties of a session of queries ================ *)

\* C11: no call to GetFieldsForTypeName, GetEntityTypesFromFields or
\* IsFieldValid, returning or raising, changes the universe or
\* match_score_threshold, and a call repeated with the arguments of an
\* earlier one has the same outcome: the same result, elements and order,
\* or the same error.
C11_QueriesRepeat ==
    [][ /\ universe' = universe
        /\ match_score_threshold' = match_score_threshold
        /\ (call' # NoCall /\ call' = remembered'.call) => ret' = remembered'.ret
      ]_vars

\* A ranking that returned a Match is repeated after the caller kept it,
\* with the same outcome.
C11_Witness ==
    /\ call.op = "GetEntityTypesFromFields"
    /\ call = remembered.call
    /\ ret = remembered.ret
    /\ ret.raised = NoError
    /\ ret.matches # <<>>

====
